---- MODULE Spec2Model ----
(***************************************************************************)
(* A model of git-changelog (src/src/main.rs): the commit-message parser,  *)
(* the worker pool with its two channels, the report aggregator and the    *)
(* Markdown renderer.                                                      *)
(*                                                                         *)
(* Text is a sequence of one-character strings, so that splitting,         *)
(* trimming, lower-casing and rendering are computed character by          *)
(* character as the program computes them.  An Option<T> is a sequence of  *)
(* length 0 (None) or 1 (Some).                                            *)
(***************************************************************************)
EXTENDS Integers, Sequences, FiniteSets, TLC

(***************************************************************************)
(* Bounds of the model.                                                    *)
(***************************************************************************)
\* the largest number of logical cpus num_cpus::get() reports
MaxCpus == 3
\* the largest number of commit ids the revision walk yields
MaxRevs == 2
\* the largest number of tags in the repository
MaxTags == 2
\* the largest commit time, in seconds, of a tagged commit
MaxSeconds == 2
\* the largest number of tokens in the headline of a generated message
MaxHeadToks == 4
\* the largest number of add_report calls on a stand-alone aggregator
MaxAdds == 4

(***************************************************************************)
(* Program constants.                                                      *)
(***************************************************************************)
FIX_TYPE == 1
FEAT_TYPE == 0

(***************************************************************************)
(* Characters and strings.                                                 *)
(***************************************************************************)
NL == "\n"
SP == " "

\* the characters of the model in ascending byte order (the order of String's Ord)
ByteOrder ==
  << "\n", " ", "#", "(", ")", "-", ":",
     "A", "B", "C", "E", "F", "G", "H", "I", "K", "L", "N", "R", "S", "T", "V", "X",
     "_",
     "a", "b", "c", "d", "e", "f", "g", "h", "i", "k", "l", "n", "o", "r", "s", "t",
     "u", "v", "x" >>

Code(c) == CHOOSE i \in 1..Len(ByteOrder) : ByteOrder[i] = c

UpperLetters == << "A", "B", "C", "E", "F", "G", "H", "I", "K", "L", "N", "R", "S", "T", "V", "X" >>
LowerLetters == << "a", "b", "c", "e", "f", "g", "h", "i", "k", "l", "n", "r", "s", "t", "v", "x" >>

\* char::to_lowercase
LowerChar(c) ==
  IF \E i \in 1..Len(UpperLetters) : UpperLetters[i] = c
  THEN LowerLetters[CHOOSE i \in 1..Len(UpperLetters) : UpperLetters[i] = c]
  ELSE c

\* str::to_lowercase
to_lowercase(s) == [i \in 1..Len(s) |-> LowerChar(s[i])]

\* char::is_whitespace, and the regex class \s, on the characters of the model
IsWs(c) == c \in {" ", "\n"}

\* str::starts_with
starts_with(s, p) == Len(p) <= Len(s) /\ SubSeq(s, 1, Len(p)) = p

\* str::trim
trim(s) ==
  LET nonws == {i \in 1..Len(s) : ~IsWs(s[i])}
  IN  IF nonws = {} THEN <<>>
      ELSE SubSeq(s, CHOOSE i \in nonws : \A j \in nonws : i <= j,
                     CHOOSE i \in nonws : \A j \in nonws : j <= i)

\* str::split on a single-character pattern
RECURSIVE split_char(_, _)
split_char(s, c) ==
  LET hits == {i \in 1..Len(s) : s[i] = c}
  IN  IF hits = {} THEN <<s>>
      ELSE LET i == CHOOSE h \in hits : \A k \in hits : h <= k
           IN  <<SubSeq(s, 1, i - 1)>> \o split_char(SubSeq(s, i + 1, Len(s)), c)

\* [&str]::join
RECURSIVE join(_, _)
join(parts, sep) ==
  IF parts = <<>> THEN <<>>
  ELSE IF Len(parts) = 1 THEN parts[1]
  ELSE parts[1] \o sep \o join(Tail(parts), sep)

\* str::replace(c, "")
remove_char(s, c) == SelectSeq(s, LAMBDA x : x # c)

\* Ord for String: lexicographic on bytes
RECURSIVE LexLess(_, _)
LexLess(a, b) ==
  IF b = <<>> THEN FALSE
  ELSE IF a = <<>> THEN TRUE
  ELSE IF a[1] # b[1] THEN Code(a[1]) < Code(b[1])
  ELSE LexLess(Tail(a), Tail(b))

\* the end of the maximal run of whitespace starting at position i (i - 1 when there is none)
WsRunEnd(s, i) ==
  LET stops == {j \in i..Len(s) : ~IsWs(s[j])}
  IN  IF stops = {} THEN Len(s)
      ELSE (CHOOSE j \in stops : \A k \in stops : j <= k) - 1

(***************************************************************************)
(* SPLITTER = \n(\n|\s+\n)+ : a newline followed by whitespace that ends   *)
(* in a newline.  The repetition is greedy, so a match that starts at i    *)
(* runs to the last newline of the whitespace that follows i.              *)
(***************************************************************************)
SplitterMatchAt(s, i) ==
  IF s[i] # NL THEN <<>>
  ELSE LET e   == WsRunEnd(s, i + 1)
           nls == {j \in (i + 1)..e : s[j] = NL}
       IN  IF nls = {} THEN <<>>
           ELSE << <<i, CHOOSE j \in nls : \A k \in nls : k <= j>> >>

SPLITTER(s, from) ==
  LET starts == {i \in from..Len(s) : SplitterMatchAt(s, i) # <<>>}
  IN  IF starts = {} THEN <<>>
      ELSE SplitterMatchAt(s, CHOOSE i \in starts : \A k \in starts : i <= k)

\* SPLITTER.split: the text between the matches (Regex::split).  A piece after a
\* match at the very end is empty; parse_report trims and skips empty pieces.
RECURSIVE splitter_split(_, _)
splitter_split(s, from) ==
  LET m == SPLITTER(s, from)
  IN  IF m = <<>> THEN <<SubSeq(s, from, Len(s))>>
      ELSE <<SubSeq(s, from, m[1][1] - 1)>> \o splitter_split(s, m[1][2] + 1)

(***************************************************************************)
(* CLEANER = \s+-\s+ : whitespace, a hyphen, whitespace.                   *)
(***************************************************************************)
CleanerMatchAt(s, i) ==
  IF ~IsWs(s[i]) THEN <<>>
  ELSE LET h == WsRunEnd(s, i) + 1
       IN  IF h + 1 <= Len(s) /\ s[h] = "-" /\ IsWs(s[h + 1])
           THEN << <<i, WsRunEnd(s, h + 1)>> >>
           ELSE <<>>

CLEANER(s, from) ==
  LET starts == {i \in from..Len(s) : CleanerMatchAt(s, i) # <<>>}
  IN  IF starts = {} THEN <<>>
      ELSE CleanerMatchAt(s, CHOOSE i \in starts : \A k \in starts : i <= k)

\* CLEANER.split: the text between the matches (Regex::split)
RECURSIVE cleaner_split(_, _)
cleaner_split(s, from) ==
  LET m == CLEANER(s, from)
  IN  IF m = <<>> THEN <<SubSeq(s, from, Len(s))>>
      ELSE <<SubSeq(s, from, m[1][1] - 1)>> \o cleaner_split(s, m[1][2] + 1)

\* parse_array: the fragments between the bullets, the first one skipped
parse_array(input) == Tail(cleaner_split(input, 1))

(***************************************************************************)
(* parse_report                                                            *)
(***************************************************************************)
STR_feat == <<"f", "e", "a", "t">>
STR_feature == <<"f", "e", "a", "t", "u", "r", "e">>
STR_fix == <<"f", "i", "x">>
STR_solves == <<"s", "o", "l", "v", "e", "s", ":", "\n">>
STR_related == <<"r", "e", "l", "a", "t", "e", "d", ":", "\n">>
STR_breaking_us ==
  <<"b", "r", "e", "a", "k", "i", "n", "g", "_", "c", "h", "a", "n", "g", "e", "s", ":", "\n">>
STR_breaking_sp ==
  <<"b", "r", "e", "a", "k", "i", "n", "g", " ", "c", "h", "a", "n", "g", "e", "s", ":", "\n">>

\* struct Report
Report(header, commit_type, context) ==
  [ header |-> header,
    description |-> <<>>,
    context |-> context,
    commit_type |-> commit_type,
    related_issues |-> <<>>,
    solved_issues |-> <<>>,
    breaking_changes |-> <<>> ]

\* the loop over the body segments of parse_report
RECURSIVE parse_body(_, _)
parse_body(result, parts) ==
  IF parts = <<>> THEN result
  ELSE LET part == trim(parts[1])
           low  == to_lowercase(part)
           next ==
             IF part = <<>> THEN result
             ELSE IF starts_with(low, STR_solves)
               THEN [result EXCEPT !.solved_issues = parse_array(part)]
             ELSE IF starts_with(low, STR_related)
               THEN [result EXCEPT !.related_issues = parse_array(part)]
             ELSE IF starts_with(low, STR_breaking_us) \/ starts_with(low, STR_breaking_sp)
               THEN [result EXCEPT !.breaking_changes = parse_array(part)]
             ELSE [result EXCEPT !.description = <<part>>]
       IN  parse_body(next, Tail(parts))

\* the context of the headline: the second piece of the split at "(", every ")" removed
headline_context(type_parts) ==
  IF Len(type_parts) > 1 THEN remove_char(type_parts[2], ")") ELSE <<>>

\* headline_type that compares with starts_with instead of equality
headline_type_prefix(commit_type) ==
  LET low == to_lowercase(commit_type)
  IN  IF starts_with(low, STR_feat) THEN <<FEAT_TYPE>>
      ELSE IF starts_with(low, STR_fix) THEN <<FIX_TYPE>>
      ELSE <<>>

\* the type of the headline: Some(FEAT_TYPE), Some(FIX_TYPE) or None
headline_type(commit_type) ==
  LET low == to_lowercase(commit_type)
  IN  IF low = STR_feat \/ low = STR_feature THEN <<FEAT_TYPE>>
      ELSE IF low = STR_fix THEN <<FIX_TYPE>>
      ELSE <<>>

parse_report(raw_input) ==
  LET split          == splitter_split(raw_input, 1)
      raw_head_line  == split[1]
      headline_parts == split_char(raw_head_line, ":")
  IN  IF Len(headline_parts) < 2 THEN <<>>
      ELSE LET type_parts == split_char(headline_parts[1], "(")
               context    == headline_context(type_parts)
               headline   == trim(join(Tail(headline_parts), <<":">>))
               ty         == headline_type(type_parts[1])
           IN  IF ty = <<>> THEN <<>>
               ELSE <<parse_body(Report(headline, ty[1], context), Tail(split))>>

(***************************************************************************)
(* ReportAggregator.  The BTreeMap is a function from its keys to the two  *)
(* buckets of a key; bucket commit_type is element commit_type + 1.        *)
(***************************************************************************)
STR_h3 == <<"#", "#", "#", " ">>
STR_general_features ==
  <<"#", "#", "#", " ", "G", "e", "n", "e", "r", "a", "l", " ", "F", "e", "a", "t", "u", "r", "e", "s", "\n", "\n">>
STR_features == <<"#", "#", "#", "#", " ", "F", "e", "a", "t", "u", "r", "e", "s", "\n", "\n">>
STR_general_fixes ==
  <<"#", "#", "#", " ", "G", "e", "n", "e", "r", "a", "l", " ", "F", "i", "x", "e", "s", "\n", "\n">>
STR_fixes == <<"#", "#", "#", "#", " ", "F", "i", "x", "e", "s", "\n", "\n">>
STR_breaking_heading ==
  <<"#", "#", "#", " ", "B", "R", "E", "A", "K", "I", "N", "G", " ", "C", "H", "A", "N", "G", "E", "S", "\n", "\n">>
STR_no_tags == <<"n", "o", " ", "t", "a", "g", "s", " ", "f", "o", "u", "n", "d", "\n">>

\* ReportAggregator::new
ReportAggregator_new == [reports |-> <<>>, breaking_changes |-> <<>>]

\* the bucket that add_report pushes the report onto
bucket_index(report) == report.commit_type + 1

\* add_report that inserts fresh buckets for the key on every call
add_report_insert(agg, report) ==
  LET m     == agg.reports
      k     == report.context
      added == [<< <<>>, <<>> >> EXCEPT ![bucket_index(report)] = Append(@, report)]
  IN  [ reports |-> [c \in (DOMAIN m) \cup {k} |-> IF c = k THEN added ELSE m[c]],
        breaking_changes |-> agg.breaking_changes \o report.breaking_changes ]

\* add_report that puts the breaking changes of the report in front of the list
add_report_prepend(agg, report) ==
  LET m     == agg.reports
      k     == report.context
      entry == IF k \in DOMAIN m THEN m[k] ELSE << <<>>, <<>> >>
      added == [entry EXCEPT ![bucket_index(report)] = Append(@, report)]
  IN  [ reports |-> [c \in (DOMAIN m) \cup {k} |-> IF c = k THEN added ELSE m[c]],
        breaking_changes |-> report.breaking_changes \o agg.breaking_changes ]

\* add_report that creates the entry of the context but pushes only a report whose
\* bucket is still empty
add_report_first_only(agg, report) ==
  LET m     == agg.reports
      k     == report.context
      entry == IF k \in DOMAIN m THEN m[k] ELSE << <<>>, <<>> >>
      added == IF entry[bucket_index(report)] = <<>>
               THEN [entry EXCEPT ![bucket_index(report)] = Append(@, report)]
               ELSE entry
  IN  [ reports |-> [c \in (DOMAIN m) \cup {k} |-> IF c = k THEN added ELSE m[c]],
        breaking_changes |-> agg.breaking_changes \o report.breaking_changes ]

\* ReportAggregator::add_report
add_report(agg, report) ==
  LET m     == agg.reports
      k     == report.context
      entry == IF k \in DOMAIN m THEN m[k] ELSE << <<>>, <<>> >>
      added == [entry EXCEPT ![bucket_index(report)] = Append(@, report)]
  IN  [ reports |-> [c \in (DOMAIN m) \cup {k} |-> IF c = k THEN added ELSE m[c]],
        breaking_changes |-> agg.breaking_changes \o report.breaking_changes ]

\* first_key for a map iterated in descending order
first_key_desc(keys) == CHOOSE k \in keys : \A o \in keys : o = k \/ LexLess(o, k)

\* the order in which a BTreeMap<String, _> is iterated: ascending keys
first_key(keys) == CHOOSE k \in keys : \A o \in keys : o = k \/ LexLess(k, o)

RECURSIVE key_order(_)
key_order(keys) ==
  IF keys = {} THEN <<>>
  ELSE LET k == first_key(keys) IN <<k>> \o key_order(keys \ {k})

\* Report::print
Report_print(report) ==
  report.header \o <<NL, NL>>
    \o (IF report.description # <<>> THEN report.description[1] \o <<NL>> ELSE <<>>)

RECURSIVE print_reports(_)
print_reports(rs) ==
  IF rs = <<>> THEN <<>> ELSE Report_print(rs[1]) \o print_reports(Tail(rs))

\* the body of the loop of ReportAggregator::print for one key and its buckets
print_context(k, v) ==
  (IF (Len(v[FIX_TYPE + 1]) > 0 \/ Len(v[FEAT_TYPE + 1]) > 0) /\ k # <<>>
   THEN STR_h3 \o k \o <<NL, NL>> ELSE <<>>)
  \o (IF Len(v[FEAT_TYPE + 1]) > 0
      THEN (IF k = <<>> THEN STR_general_features ELSE STR_features)
             \o print_reports(v[FEAT_TYPE + 1]) \o <<NL>>
      ELSE <<>>)
  \o (IF Len(v[FIX_TYPE + 1]) > 0
      THEN (IF k = <<>> THEN STR_general_fixes ELSE STR_fixes)
             \o print_reports(v[FIX_TYPE + 1]) \o <<NL>>
      ELSE <<>>)

RECURSIVE print_contexts(_, _)
print_contexts(m, ks) ==
  IF ks = <<>> THEN <<>>
  ELSE print_context(ks[1], m[ks[1]]) \o print_contexts(m, Tail(ks))

RECURSIVE print_entries(_)
print_entries(bcs) ==
  IF bcs = <<>> THEN <<>> ELSE bcs[1] \o <<NL, NL>> \o print_entries(Tail(bcs))

\* the BREAKING CHANGES section of ReportAggregator::print
print_breaking(bcs) ==
  IF Len(bcs) > 0 THEN STR_breaking_heading \o print_entries(bcs) ELSE <<>>

\* ReportAggregator::print: the bytes written to out
ReportAggregator_print(agg) ==
  print_contexts(agg.reports, key_order(DOMAIN agg.reports))
    \o print_breaking(agg.breaking_changes)

(***************************************************************************)
(* find_latest_tag_commit_id.  A tag is [peels, seconds]: whether          *)
(* peel_to_commit succeeds and the time of the commit; the commit id of    *)
(* the i-th tag name is i.                                                 *)
(***************************************************************************)
RECURSIVE seqs_upto(_, _)
seqs_upto(S, n) ==
  IF n = 0 THEN {<<>>}
  ELSE LET shorter == seqs_upto(S, n - 1)
       IN  shorter \cup {Append(q, x) : q \in shorter, x \in S}

TagLists == seqs_upto([peels : BOOLEAN, seconds : 1..MaxSeconds], MaxTags)

\* the commits the tag names peel to, as [id, seconds], in the order of the names
RECURSIVE tag_commits(_, _)
tag_commits(tags, i) ==
  IF i > Len(tags) THEN <<>>
  ELSE (IF tags[i].peels THEN <<[id |-> i, seconds |-> tags[i].seconds]>> ELSE <<>>)
         \o tag_commits(tags, i + 1)

\* Vec::sort_by on the commit time: ascending and stable
RECURSIVE sort_by_seconds(_)
sort_by_seconds(cs) ==
  IF cs = <<>> THEN <<>>
  ELSE LET i == CHOOSE a \in 1..Len(cs) :
                  /\ \A b \in 1..Len(cs) : cs[a].seconds <= cs[b].seconds
                  /\ \A b \in 1..(a - 1) : cs[b].seconds # cs[a].seconds
       IN  <<cs[i]>> \o sort_by_seconds(SubSeq(cs, 1, i - 1) \o SubSeq(cs, i + 1, Len(cs)))

find_latest_tag_commit_id(tags) ==
  LET reports == sort_by_seconds(tag_commits(tags, 1))
  IN  IF reports = <<>> THEN <<>> ELSE <<reports[Len(reports)].id>>

(***************************************************************************)
(* The repository as the workers see it: find_commit on an enumerated id   *)
(* fails, or yields a commit with a message.                               *)
(***************************************************************************)
MSG_fix == <<"f", "i", "x", ":", " ", "a">>
MSG_feat ==
  <<"F", "e", "a", "t", "(", "c", ")", ":", " ", "b", "\n", "\n",
    "B", "r", "e", "a", "k", "i", "n", "g", " ", "C", "h", "a", "n", "g", "e", "s", ":", "\n",
    " ", "-", " ", "x">>
MSG_other == <<"d", "o", "c", ":", " ", "a">>

CommitMessages == {<<>>, MSG_fix, MSG_feat, MSG_other}

StoreEntries ==
  {[found |-> FALSE, message |-> <<>>]}
    \cup {[found |-> TRUE, message |-> m] : m \in CommitMessages}

(***************************************************************************)
(* The state.                                                              *)
(***************************************************************************)
VARIABLES
  cpus,         \* num_cpus::get()
  num,          \* main's num
  args,         \* args.len()
  possible_id,  \* main's possible_id: Option<Oid>, in scope in the no-argument branch
  tags_read,    \* Some(the number of tag names) while the no-argument branch has read them
  revs,         \* main's revs
  store,        \* the repository: enumerated id -> what find_commit yields
  spawned,      \* the number of threads spawned so far
  sent,         \* the number of ids sent so far
  mainPc,       \* where the main thread is
  outcome,      \* "running", or how the process ended: "ok" or "err"
  oidQ,         \* the ids in the oid channel
  oid_send,     \* whether main still holds the sender of the oid channel
  reportQ,      \* the reports in the report channel, each with the id it came from
  report_send,  \* whether main still holds its sender of the report channel
  worker,       \* per worker: [pc, oid]
  aggregator,   \* the ReportAggregator
  addLog,       \* the add_report calls so far, in order: [oid, report]
  out,          \* the bytes written to standard output
  printed,      \* whether ReportAggregator::print has run
  prev_out,     \* Some(the bytes of the render before the last one), for a second render
  raw,          \* parser harness: the message
  toks,         \* parser harness: the number of tokens of the message
  parsed,       \* parser harness: the result of parse_report
  ppc           \* parser harness: "build" or "parsed"

mainVars == <<cpus, num, args, possible_id, tags_read, revs, store, spawned, sent, mainPc, outcome>>
chanVars == <<oidQ, oid_send, reportQ, report_send, worker>>
aggVars == <<aggregator, addLog, out, printed, prev_out>>
parseVars == <<raw, toks, parsed, ppc>>
vars == <<mainVars, chanVars, aggVars, parseVars>>

Workers == 1..MaxCpus

\* LiveWorkers when a panicked thread never drops its sender
LiveWorkers_panicked == {w \in Workers : worker[w].pc \in {"recv", "process", "panicked"}}

\* the workers that hold a sender of the report channel
LiveWorkers == {w \in Workers : worker[w].pc \in {"recv", "process"}}

ParserIdle == raw = <<>> /\ toks = 0 /\ parsed = <<>> /\ ppc = "idle"

PipelineIdle ==
  /\ num = 0 /\ args = 0 /\ possible_id = <<>> /\ tags_read = <<>>
  /\ revs = <<>> /\ store = <<>> /\ spawned = 0 /\ sent = 0
  /\ outcome = "running"
  /\ oidQ = <<>> /\ oid_send = FALSE /\ reportQ = <<>> /\ report_send = FALSE
  /\ worker = [w \in Workers |-> [pc |-> "unspawned", oid |-> 0]]
  /\ aggregator = ReportAggregator_new /\ addLog = <<>> /\ out = <<>> /\ printed = FALSE
  /\ prev_out = <<>>

Init ==
  /\ cpus \in 1..MaxCpus
  /\ mainPc = "start"
  /\ PipelineIdle
  /\ ParserIdle

(***************************************************************************)
(* main                                                                    *)
(***************************************************************************)
\* a `?` or an expect of main that fails: the process ends with an error
MainFails ==
  /\ mainPc' = "exit"
  /\ outcome' = "err"

\* the number of threads for a machine with c logical cpus
pool_size(c) == IF c > 1 THEN c - 1 ELSE c

\* lines 10-17: the pool size, the repository, the revision walk, the arguments
MainOpen ==
  /\ mainPc = "start"
  /\ num' = pool_size(cpus)
  /\ \E opened \in BOOLEAN, n \in 0..1 :
       IF opened
       THEN /\ args' = n
            /\ mainPc' = IF n = 0 THEN "latest_tag" ELSE "range"
            /\ outcome' = outcome
       ELSE /\ MainFails
            /\ args' = args
  /\ UNCHANGED <<cpus, possible_id, tags_read, revs, store, spawned, sent>>
  /\ UNCHANGED <<chanVars, aggVars, parseVars>>

\* MainLatestTag without the is_none check: unwrap panics when there is no tag
MainLatestTag_unwrap ==
  /\ mainPc = "latest_tag"
  /\ \E tags \in TagLists :
       /\ tags_read' = <<Len(tags)>>
       /\ possible_id' = find_latest_tag_commit_id(tags)
       /\ IF possible_id' = <<>>
          THEN MainFails
          ELSE mainPc' = "walk" /\ outcome' = outcome
  /\ UNCHANGED <<cpus, num, args, revs, store, spawned, sent>>
  /\ UNCHANGED <<chanVars, aggVars, parseVars>>

\* lines 20-24: no argument; the latest tag, and the early return when there is none
MainLatestTag ==
  /\ mainPc = "latest_tag"
  /\ \E tags \in TagLists :
       /\ tags_read' = <<Len(tags)>>
       /\ possible_id' = find_latest_tag_commit_id(tags)
       /\ IF possible_id' = <<>>
          THEN /\ out' = out \o STR_no_tags
               /\ mainPc' = "exit"
               /\ outcome' = "ok"
          ELSE /\ out' = out
               /\ mainPc' = "walk"
               /\ outcome' = outcome
  /\ UNCHANGED <<cpus, num, args, revs, store, spawned, sent>>
  /\ UNCHANGED <<chanVars, aggregator, addLog, printed, prev_out, parseVars>>

\* lines 28-33: one argument; the revision or the range may not resolve
MainRange ==
  /\ mainPc = "range"
  /\ \E resolved \in BOOLEAN :
       IF resolved
       THEN mainPc' = "walk" /\ outcome' = outcome
       ELSE MainFails
  /\ UNCHANGED <<cpus, num, args, possible_id, tags_read, revs, store, spawned, sent>>
  /\ UNCHANGED <<chanVars, aggVars, parseVars>>

\* where main goes once s threads are spawned and t ids are sent
main_loop_pc(n, s, rv, t) ==
  IF s < n THEN "spawn"
  ELSE IF t < Len(rv) THEN "send"
  ELSE "drop_oid"

\* cap_to_jobs without the cap
cap_to_jobs_uncapped(n, j) == n

\* the number of threads for j jobs, given the size computed from the cpus
cap_to_jobs(n, j) == IF j < n THEN j ELSE n

\* lines 25-26 and 36-43: the walk yields the ids 1..j; the channels; the pool is capped
MainWalk ==
  /\ mainPc = "walk"
  /\ \E j \in 0..MaxRevs :
       /\ revs' = [i \in 1..j |-> i]
       /\ store' \in [1..j -> StoreEntries]
       /\ num' = cap_to_jobs(num, j)
       /\ mainPc' = main_loop_pc(num', 0, revs', 0)
  /\ possible_id' = <<>>
  /\ tags_read' = <<>>
  /\ oid_send' = TRUE
  /\ report_send' = TRUE
  /\ UNCHANGED <<cpus, args, spawned, sent, outcome, oidQ, reportQ, worker>>
  /\ UNCHANGED <<aggVars, parseVars>>

\* lines 44-57: one thread is spawned; it holds clones of both channel ends.  The
\* thread opens the directory that main has opened at line 15, which succeeds.
MainSpawn ==
  /\ mainPc = "spawn"
  /\ spawned' = spawned + 1
  /\ worker' = [worker EXCEPT ![spawned + 1] = [pc |-> "recv", oid |-> 0]]
  /\ mainPc' = main_loop_pc(num, spawned', revs, sent)
  /\ UNCHANGED <<cpus, num, args, possible_id, tags_read, revs, store, sent, outcome>>
  /\ UNCHANGED <<oidQ, oid_send, reportQ, report_send>>
  /\ UNCHANGED <<aggVars, parseVars>>

\* lines 59-61: one id is sent
MainSend ==
  /\ mainPc = "send"
  /\ oidQ' = Append(oidQ, revs[sent + 1])
  /\ sent' = sent + 1
  /\ mainPc' = main_loop_pc(num, spawned, revs, sent')
  /\ UNCHANGED <<cpus, num, args, possible_id, tags_read, revs, store, spawned, outcome>>
  /\ UNCHANGED <<oid_send, reportQ, report_send, worker>>
  /\ UNCHANGED <<aggVars, parseVars>>

\* line 62: drop(oid_send)
MainDropOid ==
  /\ mainPc = "drop_oid"
  /\ oid_send' = FALSE
  /\ mainPc' = "drop_report"
  /\ UNCHANGED <<cpus, num, args, possible_id, tags_read, revs, store, spawned, sent, outcome>>
  /\ UNCHANGED <<oidQ, reportQ, report_send, worker>>
  /\ UNCHANGED <<aggVars, parseVars>>

\* MainDropReport without the drop: main keeps its sender of the report channel
MainDropReport_kept ==
  /\ mainPc = "drop_report"
  /\ report_send' = report_send
  /\ aggregator' = ReportAggregator_new
  /\ mainPc' = "drain"
  /\ UNCHANGED <<cpus, num, args, possible_id, tags_read, revs, store, spawned, sent, outcome>>
  /\ UNCHANGED <<oidQ, oid_send, reportQ, worker>>
  /\ UNCHANGED <<addLog, out, printed, prev_out, parseVars>>

\* lines 63-65: drop(report_send); the aggregator is created
MainDropReport ==
  /\ mainPc = "drop_report"
  /\ report_send' = FALSE
  /\ aggregator' = ReportAggregator_new
  /\ mainPc' = "drain"
  /\ UNCHANGED <<cpus, num, args, possible_id, tags_read, revs, store, spawned, sent, outcome>>
  /\ UNCHANGED <<oidQ, oid_send, reportQ, worker>>
  /\ UNCHANGED <<addLog, out, printed, prev_out, parseVars>>

\* lines 66-68: the iterator yields a report, which is added
MainRecvReport ==
  /\ mainPc = "drain"
  /\ reportQ # <<>>
  /\ aggregator' = add_report(aggregator, Head(reportQ).report)
  /\ addLog' = Append(addLog, Head(reportQ))
  /\ reportQ' = Tail(reportQ)
  /\ UNCHANGED <<mainVars, oidQ, oid_send, report_send, worker, out, printed, prev_out, parseVars>>

\* report_channel_ended for an iterator that stops at the first empty channel
report_channel_ended_early == reportQ = <<>> /\ ~report_send

\* report_channel_ended for an iterator that stops once every sender is dropped,
\* whatever is left in the channel
report_channel_ended_disconnected == ~report_send /\ LiveWorkers = {}

\* whether report_receive.iter() ends: the channel is empty and every sender is dropped
report_channel_ended == reportQ = <<>> /\ ~report_send /\ LiveWorkers = {}

\* line 66: the iterator ends
MainDrainEnd ==
  /\ mainPc = "drain"
  /\ report_channel_ended
  /\ mainPc' = "print"
  /\ UNCHANGED <<cpus, num, args, possible_id, tags_read, revs, store, spawned, sent, outcome>>
  /\ UNCHANGED <<chanVars, aggVars, parseVars>>

\* lines 70-72: the changelog is written and main returns Ok
MainPrint ==
  /\ mainPc = "print"
  /\ out' = out \o ReportAggregator_print(aggregator)
  /\ printed' = TRUE
  /\ prev_out' = prev_out
  /\ mainPc' = "exit"
  /\ outcome' = "ok"
  /\ UNCHANGED <<cpus, num, args, possible_id, tags_read, revs, store, spawned, sent>>
  /\ UNCHANGED <<chanVars, aggregator, addLog, parseVars>>

(***************************************************************************)
(* Worker.  A thread runs until main returns, which ends the process.      *)
(***************************************************************************)
\* WorkerRecv for a channel that hands out the id sent last
WorkerRecv_lifo(w) ==
  /\ outcome = "running"
  /\ worker[w].pc = "recv"
  /\ oidQ # <<>>
  /\ worker' = [worker EXCEPT ![w] = [pc |-> "process", oid |-> oidQ[Len(oidQ)]]]
  /\ oidQ' = SubSeq(oidQ, 1, Len(oidQ) - 1)
  /\ UNCHANGED <<mainVars, oid_send, reportQ, report_send, aggVars, parseVars>>

\* lines 179 and 184: recv yields an id
WorkerRecv(w) ==
  /\ outcome = "running"
  /\ worker[w].pc = "recv"
  /\ oidQ # <<>>
  /\ worker' = [worker EXCEPT ![w] = [pc |-> "process", oid |-> Head(oidQ)]]
  /\ oidQ' = Tail(oidQ)
  /\ UNCHANGED <<mainVars, oid_send, reportQ, report_send, aggVars, parseVars>>

\* WorkerExit for a receive that does not block: the thread returns on an empty channel
WorkerExit_try(w) ==
  /\ outcome = "running"
  /\ worker[w].pc = "recv"
  /\ oidQ = <<>>
  /\ worker' = [worker EXCEPT ![w] = [pc |-> "exited", oid |-> 0]]
  /\ UNCHANGED <<mainVars, oidQ, oid_send, reportQ, report_send, aggVars, parseVars>>

\* lines 179-183: recv fails, the channel being empty and disconnected; the thread returns
WorkerExit(w) ==
  /\ outcome = "running"
  /\ worker[w].pc = "recv"
  /\ oidQ = <<>>
  /\ ~oid_send
  /\ worker' = [worker EXCEPT ![w] = [pc |-> "exited", oid |-> 0]]
  /\ UNCHANGED <<mainVars, oidQ, oid_send, reportQ, report_send, aggVars, parseVars>>

\* parse_report on each message of the repository, tabulated so that it is
\* evaluated once and not again in every state
parsed_message == [m \in CommitMessages |-> parse_report(m)]

\* process_commit: the reports sent for a commit that was found
process_commit(oid, entry) ==
  IF entry.message = <<>> THEN <<>>
  ELSE LET possible_report == parsed_message[entry.message]
       IN  IF possible_report # <<>>
           THEN <<[oid |-> oid, report |-> possible_report[1]]>>
           ELSE <<>>

\* WorkerProcess for workers that take turns: a commit is processed only when no
\* other worker holds an earlier id
WorkerProcess_in_turn(w) ==
  /\ outcome = "running"
  /\ worker[w].pc = "process"
  /\ \A v \in Workers : worker[v].pc = "process" => worker[v].oid >= worker[w].oid
  /\ LET oid == worker[w].oid
     IN  IF store[oid].found
         THEN /\ reportQ' = reportQ \o process_commit(oid, store[oid])
              /\ worker' = [worker EXCEPT ![w] = [pc |-> "recv", oid |-> 0]]
         ELSE /\ reportQ' = reportQ
              /\ worker' = [worker EXCEPT ![w] = [pc |-> "panicked", oid |-> oid]]
  /\ UNCHANGED <<mainVars, oidQ, oid_send, report_send, aggVars, parseVars>>

\* lines 185-188 and 192-203: the commit is processed; a failed lookup panics the
\* thread, whose unwinding drops its channel ends (the default panic strategy).
\* The send at line 200 cannot fail: main holds the receiver until it returns.
WorkerProcess(w) ==
  /\ outcome = "running"
  /\ worker[w].pc = "process"
  /\ LET oid == worker[w].oid
     IN  IF store[oid].found
         THEN /\ reportQ' = reportQ \o process_commit(oid, store[oid])
              /\ worker' = [worker EXCEPT ![w] = [pc |-> "recv", oid |-> 0]]
         ELSE /\ reportQ' = reportQ
              /\ worker' = [worker EXCEPT ![w] = [pc |-> "panicked", oid |-> oid]]
  /\ UNCHANGED <<mainVars, oidQ, oid_send, report_send, aggVars, parseVars>>

Main ==
  \/ MainOpen
  \/ MainLatestTag
  \/ MainRange
  \/ MainWalk
  \/ MainSpawn
  \/ MainSend
  \/ MainDropOid
  \/ MainDropReport
  \/ MainRecvReport
  \/ MainDrainEnd
  \/ MainPrint

Next ==
  \/ Main
  \/ \E w \in Workers : WorkerRecv(w)
  \/ \E w \in Workers : WorkerExit(w)
  \/ \E w \in Workers : WorkerProcess(w)

Spec == Init /\ [][Next]_vars

\* every thread that can run is eventually scheduled
FairSpec ==
  /\ Spec
  /\ WF_vars(Main)
  /\ \A w \in Workers : WF_vars(WorkerRecv(w) \/ WorkerExit(w) \/ WorkerProcess(w))

(***************************************************************************)
(* The parser on its own: a message is built from headline tokens and one  *)
(* body, and parse_report is applied to it, as the test does with the      *)
(* messages it reads.                                                      *)
(***************************************************************************)
TOK_Feat == <<"F", "e", "a", "t">>

HeadTokens ==
  {STR_fix, TOK_Feat, STR_feature, <<"x">>, <<":">>, <<"(">>, <<")">>, <<SP>>, <<NL>>}

BODY_solves ==
  <<"\n", "\n", "S", "o", "l", "v", "e", "s", ":", "\n", " ", "-", " ", "a", "\n", " ", "-", " ", "b">>
BODY_desc_related ==
  <<"\n", " ", "\n", "d", " ", "e", "\n", "\n", "R", "e", "l", "a", "t", "e", "d", ":", "\n", "-", " ", "a">>
BODY_breaking ==
  <<"\n", "\n", "B", "R", "E", "A", "K", "I", "N", "G", " ", "C", "H", "A", "N", "G", "E", "S", ":", "\n",
    " ", "-", " ", "x", "\n", "\n", "\n", "d", "\n", "\n", "e">>

BODY_dash ==
  <<"\n", "\n", "R", "e", "l", "a", "t", "e", "d", ":", "\n", "-", " ", "a", " ", "-", " ",
    "b", "\n", "-", " ", "x">>
BODY_label_only ==
  <<"\n", "\n", "S", "o", "l", "v", "e", "s", ":", "\n", "-", " ", "a", "\n", "\n", "d",
    "\n", "\n", "S", "o", "l", "v", "e", "s", ":">>
BODY_underscore ==
  <<"\n", "\n", "B", "r", "e", "a", "k", "i", "n", "g", "_", "C", "h", "a", "n", "g", "e",
    "s", ":", "\n", "-", " ", "x", "\n", "-", " ", "y", " ", "z">>

Bodies ==
  {<<>>, BODY_solves, BODY_desc_related, BODY_breaking, BODY_dash, BODY_label_only, BODY_underscore}

ParseInit ==
  /\ cpus = 1
  /\ mainPc = "idle"
  /\ PipelineIdle
  /\ raw = <<>> /\ toks = 0 /\ parsed = <<>> /\ ppc = "build"

\* one more token of the headline
ParseAppend(t) ==
  /\ ppc = "build"
  /\ toks < MaxHeadToks
  /\ raw' = raw \o t
  /\ toks' = toks + 1
  /\ UNCHANGED <<parsed, ppc, mainVars, chanVars, aggVars>>

\* the message is completed by a body and parsed
ParseMessage(b) ==
  /\ ppc = "build"
  /\ raw' = raw \o b
  /\ parsed' = parse_report(raw')
  /\ ppc' = "parsed"
  /\ UNCHANGED <<toks, mainVars, chanVars, aggVars>>

ParseNext ==
  \/ \E t \in HeadTokens : ParseAppend(t)
  \/ \E b \in Bodies : ParseMessage(b)

ParseSpec == ParseInit /\ [][ParseNext]_vars

(***************************************************************************)
(* The aggregator on its own: reports are added in any order and the       *)
(* aggregator is then printed, as the test does with its table.            *)
(***************************************************************************)
MkReport(header, commit_type, context, description, breaking_changes) ==
  [ Report(header, commit_type, context) EXCEPT
      !.description = description, !.breaking_changes = breaking_changes ]

ReportPool ==
  { MkReport(<<"h">>, FEAT_TYPE, <<>>, <<>>, <<>>),
    MkReport(<<"i">>, FIX_TYPE, <<>>, <<>>, << <<"x">> >>),
    MkReport(<<"k">>, FEAT_TYPE, <<"a">>, << <<"d">> >>, << <<"u">>, <<"v">> >>),
    MkReport(<<"g">>, FEAT_TYPE, <<"a">>, <<>>, <<>>),
    MkReport(<<"l">>, FIX_TYPE, <<"a">>, <<>>, <<>>),
    MkReport(<<"n">>, FEAT_TYPE, <<"B">>, <<>>, <<>>),
    MkReport(<<"o">>, FIX_TYPE, <<"a", "b">>, <<>>, << <<"x">> >>) }

AggInit ==
  /\ cpus = 1
  /\ mainPc = "harness"
  /\ PipelineIdle
  /\ ParserIdle

\* aggregator.add_report(rep)
AggAdd(r) ==
  /\ mainPc = "harness"
  /\ ~printed
  /\ Len(addLog) < MaxAdds
  /\ aggregator' = add_report(aggregator, r)
  /\ addLog' = Append(addLog, [oid |-> 0, report |-> r])
  /\ UNCHANGED <<out, printed, prev_out, mainVars, chanVars, parseVars>>

\* AggPrint for a print that drains the breaking changes as it writes them
AggPrint_drain ==
  /\ mainPc = "harness"
  /\ ~printed
  /\ out' = ReportAggregator_print(aggregator)
  /\ printed' = TRUE
  /\ prev_out' = prev_out
  /\ aggregator' = [aggregator EXCEPT !.breaking_changes = <<>>]
  /\ UNCHANGED <<addLog, mainVars, chanVars, parseVars>>

\* aggregator.print(&mut output)
AggPrint ==
  /\ mainPc = "harness"
  /\ ~printed
  /\ out' = ReportAggregator_print(aggregator)
  /\ printed' = TRUE
  /\ prev_out' = prev_out
  /\ UNCHANGED <<aggregator, addLog, mainVars, chanVars, parseVars>>

AggNext ==
  \/ \E r \in ReportPool : AggAdd(r)
  \/ AggPrint

AggSpec == AggInit /\ [][AggNext]_vars

\* aggregator.print(&mut output) once more, into a fresh buffer, on the printed aggregator
AggPrintAgain ==
  /\ mainPc = "harness"
  /\ printed
  /\ prev_out = <<>>
  /\ out' = ReportAggregator_print(aggregator)
  /\ prev_out' = <<out>>
  /\ UNCHANGED <<aggregator, addLog, printed, mainVars, chanVars, parseVars>>

RenderNext ==
  \/ \E r \in ReportPool : AggAdd(r)
  \/ AggPrint
  \/ AggPrintAgain

\* the aggregator on its own, printed twice
RenderSpec == AggInit /\ [][RenderNext]_vars

(***************************************************************************)
(* Properties.                                                             *)
(***************************************************************************)
\* no lookup of an enumerated commit fails
NoLookupFails == \A i \in DOMAIN store : store[i].found

\* the workers spawned so far
Spawned == 1..spawned

\* the ids have been enumerated and main has not yet dropped the oid sender
Enumerated == mainPc \in {"spawn", "send", "drop_oid"}

\* the run has ended with every worker returned, both channels closed and empty,
\* and the changelog rendered
Finished ==
  /\ mainPc = "exit" /\ outcome = "ok" /\ printed
  /\ spawned = num
  /\ \A w \in Spawned : worker[w].pc = "exited"
  /\ oidQ = <<>> /\ ~oid_send
  /\ report_channel_ended

\* C1: for every enumerated list of ids (the empty one included) and every pool
\* size, if no commit lookup fails then, the threads being scheduled fairly, every
\* worker exits, the report channel closes, the drain loop ends and the
\* aggregator is rendered.
C1_Terminates == (Enumerated /\ NoLookupFails) ~> Finished

C1_Witness ==
  /\ Finished /\ NoLookupFails
  /\ spawned = 2 /\ Len(revs) = 2 /\ Len(addLog) = 2

\* the ids whose commit has a non-empty message that parses
ParsingIds ==
  {i \in 1..Len(revs) : store[i].message # <<>> /\ parse_report(store[i].message) # <<>>}

\* the number of reports in all buckets of an aggregator
RECURSIVE bucket_total(_, _)
bucket_total(m, keys) ==
  IF keys = {} THEN 0
  ELSE LET k == CHOOSE x \in keys : TRUE
       IN  Len(m[k][1]) + Len(m[k][2]) + bucket_total(m, keys \ {k})

\* the number of times x occurs in a sequence
Count(q, x) == Cardinality({i \in DOMAIN q : q[i] = x})

\* C2: when no commit lookup fails, at the moment rendering starts the reports
\* added to the aggregator are exactly those of the enumerated ids whose message
\* is non-empty and parses, one add per id; and no id is ever held by two workers
\* or by a worker and the queue.
C2_ExactlyOnce ==
  /\ \A w \in Workers : worker[w].pc = "process" =>
       /\ \A i \in DOMAIN oidQ : oidQ[i] # worker[w].oid
       /\ \A v \in Workers \ {w} : worker[v].pc = "process" => worker[v].oid # worker[w].oid
  /\ (NoLookupFails /\ (mainPc = "print" \/ printed)) =>
       /\ Len(addLog) = Cardinality(ParsingIds)
       /\ {addLog[i].oid : i \in DOMAIN addLog} = ParsingIds
       /\ \A i \in DOMAIN addLog :
            /\ <<addLog[i].report>> = parse_report(store[addLog[i].oid].message)
            /\ LET r == addLog[i].report
               IN  /\ r.context \in DOMAIN aggregator.reports
                   /\ Count(aggregator.reports[r.context][r.commit_type + 1], r)
                        = Count([j \in DOMAIN addLog |-> addLog[j].report], r)
       /\ bucket_total(aggregator.reports, DOMAIN aggregator.reports) = Len(addLog)

C2_Witness ==
  /\ mainPc = "print" /\ NoLookupFails
  /\ spawned = 2 /\ Len(revs) = 2
  /\ store[1].message = MSG_feat /\ store[2].message = MSG_other
  /\ Len(addLog) = 1

\* C3 (as claimed): a failed lookup in any worker ends the whole process with a
\* non-success outcome, and no changelog is rendered from the other commits.
C3_FatalLookup ==
  (mainPc = "exit" /\ \E w \in Workers : worker[w].pc = "panicked")
    => (outcome = "err" /\ ~printed)

Min(a, b) == IF a <= b THEN a ELSE b
Max(a, b) == IF a >= b THEN a ELSE b

\* C4: the number of threads spawned is min(max(1, P - 1), J): never more while
\* the threads are being spawned, and exactly that once the spawn loop is over.
C4_PoolSize ==
  LET target == Min(Max(1, cpus - 1), Len(revs))
  IN  /\ spawned <= target
      /\ Cardinality({w \in Workers : worker[w].pc # "unspawned"}) = spawned
      /\ mainPc \in {"send", "drop_oid", "drop_report", "drain", "print"} \/ printed
           => spawned = target

C4_Witness ==
  /\ mainPc = "drain"
  /\ cpus = 3 /\ Len(revs) = 1 /\ spawned = 1

\* the no-argument run has found that the repository has zero tags
ZeroTagsRun == tags_read = <<0>>

NothingSpawnedOrEnqueued ==
  /\ spawned = 0 /\ sent = 0 /\ oidQ = <<>>
  /\ \A w \in Workers : worker[w].pc = "unspawned"

\* C5 (as claimed): a run with no argument against a repository with zero tags
\* ends successfully with empty output; no worker is spawned, nothing enqueued.
C5_EmptyOutput ==
  ZeroTagsRun =>
    /\ mainPc = "exit" /\ outcome = "ok"
    /\ out = <<>>
    /\ NothingSpawnedOrEnqueued

\* C5 (amended): a run with no argument against a repository with zero tags ends
\* successfully, never with an error, having written only the line "no tags
\* found" and no changelog; no worker is spawned and nothing is enqueued.
C5_NoTags ==
  ZeroTagsRun =>
    /\ mainPc = "exit" /\ outcome = "ok"
    /\ out = STR_no_tags /\ ~printed
    /\ NothingSpawnedOrEnqueued

C5_Witness == ZeroTagsRun /\ args = 0 /\ mainPc = "exit"

\* the text before the first occurrence of c (all of s when there is none)
Before(s, c) ==
  IF \E i \in 1..Len(s) : s[i] = c
  THEN SubSeq(s, 1, (CHOOSE i \in 1..Len(s) : s[i] = c /\ \A j \in 1..(i - 1) : s[j] # c) - 1)
  ELSE s

HasChar(s, c) == \E i \in 1..Len(s) : s[i] = c

\* the type token: the text before the first "(" of the part before the first ":"
TypeToken(s) == Before(Before(s, ":"), "(")

AcceptedType(t) == to_lowercase(t) \in {STR_feat, STR_feature, STR_fix}

\* the headline segment: the text before the first blank-line boundary
HeadlineSegment(s) == splitter_split(s, 1)[1]

\* C6 (as claimed): a message with no ":" in its first line, or whose type token
\* is not feat, feature or fix in any letter case, parses to nothing.
C6_FirstLine ==
  (ppc = "parsed" /\ (~HasChar(Before(raw, NL), ":") \/ ~AcceptedType(TypeToken(raw))))
    => parsed = <<>>

\* C6 (amended): a message with no ":" in its headline segment (the text before
\* the first blank-line boundary, which may span several lines), or whose type
\* token is not feat, feature or fix in any letter case, parses to nothing.
C6_Headline ==
  (ppc = "parsed"
     /\ (~HasChar(HeadlineSegment(raw), ":") \/ ~AcceptedType(TypeToken(raw))))
    => parsed = <<>>

C6_Witness ==
  /\ ppc = "parsed" /\ parsed = <<>>
  /\ HasChar(raw, ":")
  /\ ~HasChar(HeadlineSegment(raw), ":")
  /\ AcceptedType(TypeToken(HeadlineSegment(raw)))

\* C7 (as claimed): every Report that parse_report returns has a non-empty header
\* and a commit_type that is Feature or Fix.
C7_HeaderNonEmpty ==
  (ppc = "parsed" /\ parsed # <<>>)
    => (parsed[1].header # <<>> /\ parsed[1].commit_type \in {FEAT_TYPE, FIX_TYPE})

\* the aggregator that results from adding the reports of a sequence in order
RECURSIVE add_all(_, _)
add_all(agg, rs) ==
  IF rs = <<>> THEN agg ELSE add_all(add_report(agg, rs[1]), Tail(rs))

AddedReports == [i \in DOMAIN addLog |-> addLog[i].report]

\* the same keys and, in every bucket, the same reports the same number of times
SameBuckets(a, b) ==
  /\ DOMAIN a.reports = DOMAIN b.reports
  /\ \A k \in DOMAIN a.reports : \A t \in 1..2 :
       /\ Len(a.reports[k][t]) = Len(b.reports[k][t])
       /\ \A i \in DOMAIN a.reports[k][t] :
            Count(a.reports[k][t], a.reports[k][t][i]) = Count(b.reports[k][t], a.reports[k][t][i])

\* C8: adding the same reports in any other order gives the same context keys
\* and, in every bucket, the same multiset of reports; and every added report is
\* in exactly one bucket, that of its own context and commit_type.
C8_Commutative ==
  /\ \A p \in Permutations(DOMAIN addLog) :
       SameBuckets(add_all(ReportAggregator_new, [i \in DOMAIN addLog |-> AddedReports[p[i]]]),
                   aggregator)
  /\ DOMAIN aggregator.reports = {AddedReports[i].context : i \in DOMAIN addLog}
  /\ \A k \in DOMAIN aggregator.reports : \A t \in 1..2 :
       /\ \A i \in DOMAIN aggregator.reports[k][t] :
            LET r == aggregator.reports[k][t][i]
            IN  r.context = k /\ r.commit_type + 1 = t
       /\ \A r \in ReportPool :
            Count(aggregator.reports[k][t], r) =
              (IF r.context = k /\ r.commit_type + 1 = t THEN Count(AddedReports, r) ELSE 0)

C8_Witness ==
  /\ Len(addLog) = 3
  /\ AddedReports[1].context = <<"a">> /\ AddedReports[1].commit_type = FEAT_TYPE
  /\ AddedReports[2].context = <<>>
  /\ AddedReports[3].context = <<"a">> /\ AddedReports[3].commit_type = FEAT_TYPE
  /\ AddedReports[3] # AddedReports[1]

\* the breaking changes of the added reports, in the order of the add calls
RECURSIVE concat_breaking(_)
concat_breaking(rs) ==
  IF rs = <<>> THEN <<>> ELSE rs[1].breaking_changes \o concat_breaking(Tail(rs))

\* the lines of the output; the last one is what follows the last newline
Lines(o) == split_char(o, NL)

LINE_breaking == SubSeq(STR_breaking_heading, 1, Len(STR_breaking_heading) - 2)

IsHeadingLine(l) == l # <<>> /\ l[1] = "#"

\* the lines of the BREAKING CHANGES section: the heading and one paragraph per entry
RECURSIVE paragraphs(_)
paragraphs(es) ==
  IF es = <<>> THEN <<>> ELSE <<es[1], <<>>>> \o paragraphs(Tail(es))

\* C9: the aggregator's breaking_changes list is the concatenation, in the order
\* of the add calls, of the added reports' breaking_changes; the rendered output
\* has the BREAKING CHANGES section if and only if the list is non-empty, after
\* every context, with one paragraph per entry in list order.
C9_BreakingChanges ==
  /\ aggregator.breaking_changes = concat_breaking(AddedReports)
  /\ printed =>
       LET L  == Lines(out)
           at == {i \in DOMAIN L : L[i] = LINE_breaking}
       IN  IF aggregator.breaking_changes = <<>> THEN at = {}
           ELSE /\ Cardinality(at) = 1
                /\ LET h == CHOOSE i \in at : TRUE
                   IN  /\ SubSeq(L, h, Len(L)) =
                            <<LINE_breaking, <<>>>> \o paragraphs(aggregator.breaking_changes)
                              \o << <<>> >>
                       /\ \A i \in (h + 1)..Len(L) : ~IsHeadingLine(L[i])

C9_Witness ==
  /\ printed
  /\ Len(addLog) = 3
  /\ AddedReports[1].breaking_changes = << <<"x">> >>
  /\ AddedReports[2].breaking_changes = <<>>
  /\ AddedReports[3].breaking_changes = << <<"u">>, <<"v">> >>
  /\ Cardinality(DOMAIN aggregator.reports) = 2

LINE_general_features == SubSeq(STR_general_features, 1, Len(STR_general_features) - 2)
LINE_general_fixes == SubSeq(STR_general_fixes, 1, Len(STR_general_fixes) - 2)
LINE_features == SubSeq(STR_features, 1, Len(STR_features) - 2)
LINE_fixes == SubSeq(STR_fixes, 1, Len(STR_fixes) - 2)

\* the positions of a line in the output
At(L, l) == {i \in DOMAIN L : L[i] = l}

\* the only position of a line that occurs once
Pos(L, l) == CHOOSE i \in At(L, l) : TRUE

\* C10: rendering visits the contexts in ascending key order, the empty context
\* first; the empty context has no context heading and level-3 "General Features"
\* and "General Fixes"; every other context has exactly one "### <context>"
\* heading followed by level-4 "Features" and "Fixes"; within a context Features
\* precede Fixes, and a section is there only when its bucket is non-empty.
C10_RenderOrder ==
  printed =>
    LET L       == Lines(out)
        m       == aggregator.reports
        keys    == DOMAIN m \ {<<>>}
        heading(k) == STR_h3 \o k
        \* the lines that start a context or the BREAKING CHANGES section
        starts  == UNION {At(L, heading(k)) : k \in keys} \cup At(L, LINE_breaking)
        \* the end of the block of lines that starts at i
        blockEnd(i) == IF \E j \in starts : j > i
                       THEN (CHOOSE j \in starts : j > i /\ \A o \in starts : o > i => j <= o) - 1
                       ELSE Len(L)
        nFeat(k) == IF k \in DOMAIN m THEN Len(m[k][FEAT_TYPE + 1]) ELSE 0
        nFix(k)  == IF k \in DOMAIN m THEN Len(m[k][FIX_TYPE + 1]) ELSE 0
        \* a block has the section headings f and x of its non-empty buckets, f first
        sections(lo, hi, k, f, x, notF, notX) ==
          LET inF == {i \in At(L, f) : lo <= i /\ i <= hi}
              inX == {i \in At(L, x) : lo <= i /\ i <= hi}
          IN  /\ Cardinality(inF) = (IF nFeat(k) > 0 THEN 1 ELSE 0)
              /\ Cardinality(inX) = (IF nFix(k) > 0 THEN 1 ELSE 0)
              /\ \A i \in inF : \A j \in inX : i < j
              /\ \A i \in lo..hi : L[i] # notF /\ L[i] # notX
    IN  /\ \A k \in keys : Cardinality(At(L, heading(k))) = 1
        /\ \A k1 \in keys : \A k2 \in keys :
             LexLess(k1, k2) => Pos(L, heading(k1)) < Pos(L, heading(k2))
        /\ sections(1, blockEnd(0), <<>>, LINE_general_features, LINE_general_fixes,
                    LINE_features, LINE_fixes)
        /\ \A k \in keys :
             LET p == Pos(L, heading(k))
             IN  /\ L[p + 1] = <<>>
                 /\ L[p + 2] \in {LINE_features, LINE_fixes}
                 /\ sections(p + 1, blockEnd(p), k, LINE_features, LINE_fixes,
                             LINE_general_features, LINE_general_fixes)

C10_Witness ==
  /\ printed
  /\ DOMAIN aggregator.reports = {<<>>, <<"a">>, <<"B">>}
  /\ Len(aggregator.reports[<<"a">>][FEAT_TYPE + 1]) = 1
  /\ Len(aggregator.reports[<<"a">>][FIX_TYPE + 1]) = 1

\* a step that renders: the first print, or the print after it
RenderStep == (~printed /\ printed') \/ prev_out' # prev_out

C12_CleanExit ==
  /\ \A w \in Workers : worker[w].pc = "exited" => (~oid_send /\ oidQ = <<>>)
  /\ sent > 0 => spawned = num
  /\ Len(oidQ) > 0 => spawned = num

C12_Witness ==
  /\ worker[1].pc = "exited"
  /\ worker[2].pc = "process"
  /\ sent = 2

\* rendering has started: main is at line 70 or past it
RenderingStarted == mainPc = "print" \/ printed

\* every thread of the pool has ended, by returning or by unwinding
WorkersEnded ==
  /\ spawned = num
  /\ \A w \in Workers : worker[w].pc \in {"unspawned", "exited", "panicked"}
  /\ \A w \in Spawned : worker[w].pc # "unspawned"

\* C13: the aggregator is rendered once, and only after the report channel is
\* closed and drained: in every state where rendering has started every worker
\* thread has ended, main has dropped its sender, the report channel is empty,
\* and from then on nothing is added and the rendered text does not change; a
\* step that adds a report is a step of main's drain loop, never of a worker.
C13_RenderAfterDrain ==
  [][/\ RenderingStarted' =>
          (WorkersEnded' /\ ~report_send' /\ reportQ' = <<>>)
     /\ RenderingStarted =>
          /\ aggregator' = aggregator /\ addLog' = addLog
          /\ printed => (printed' /\ out' = out)
     /\ (aggregator' # aggregator \/ addLog' # addLog) =>
          /\ mainPc \in {"drop_report", "drain"}
          /\ worker' = worker
          /\ Len(addLog') <= Len(addLog) + 1]_vars

C13_Witness ==
  /\ printed /\ mainPc = "exit"
  /\ spawned = 2
  /\ worker[1].pc = "panicked" /\ worker[2].pc = "exited"
  /\ Len(addLog) = 1

\* C14: with two or more workers nothing orders the reports: whenever two
\* workers each hold a dequeued id, either of them may finish its commit next, so
\* the report of the later id may be sent, and added to its bucket, before that
\* of the earlier id.
C14_NoOrdering ==
  \A v, w \in Workers :
    (v # w /\ worker[v].pc = "process" /\ worker[w].pc = "process") =>
      (ENABLED WorkerProcess(v)) /\ (ENABLED WorkerProcess(w))

\* two ids parsed by two workers were added to the same bucket in the reverse of
\* the enumeration order
C14_Witness ==
  /\ spawned >= 2
  /\ Len(addLog) = 2
  /\ addLog[1].oid > addLog[2].oid
  /\ addLog[1].report.context = addLog[2].report.context
  /\ addLog[1].report.commit_type = addLog[2].report.commit_type
  /\ LET r == addLog[1].report
     IN  Len(aggregator.reports[r.context][r.commit_type + 1]) = 2
  /\ printed

\* the reports of the enumerated commits from the i-th on, in enumeration order
RECURSIVE reports_from(_)
reports_from(i) ==
  IF i > Len(revs) THEN <<>>
  ELSE (IF store[i].found /\ store[i].message # <<>>
        THEN parse_report(store[i].message) ELSE <<>>) \o reports_from(i + 1)

\* the ids of a sequence of sent reports ascend strictly
Ascending(q) == \A i, j \in DOMAIN q : i < j => q[i].oid < q[j].oid

\* the pool has been sized to one worker
SingleWorker == num = 1 /\ mainPc \in {"spawn", "send", "drop_oid", "drop_report", "drain", "print", "exit"}

\* C18: when the pool has one worker and no lookup fails, the reports are sent
\* and added in the order the ids were enumerated, and the aggregator that is
\* rendered, and its text, are those of adding the enumerated commits' reports in
\* that order: the same in every execution.
C18_SingleWorkerOrder ==
  (SingleWorker /\ NoLookupFails) =>
    /\ Ascending(addLog \o reportQ)
    /\ \A w \in Workers : worker[w].pc = "process" =>
         /\ \A i \in DOMAIN addLog : addLog[i].oid < worker[w].oid
         /\ \A i \in DOMAIN reportQ : reportQ[i].oid < worker[w].oid
         /\ \A i \in DOMAIN oidQ : worker[w].oid < oidQ[i]
    /\ RenderingStarted =>
         /\ AddedReports = reports_from(1)
         /\ aggregator = add_all(ReportAggregator_new, reports_from(1))
    /\ printed => out = ReportAggregator_print(add_all(ReportAggregator_new, reports_from(1)))

C18_Witness ==
  /\ SingleWorker /\ NoLookupFails /\ printed
  /\ spawned = 1
  /\ Len(addLog) = 2 /\ addLog[1].oid = 1 /\ addLog[2].oid = 2
  /\ addLog[1].report # addLog[2].report

\* the workers whose thread unwound from a failed lookup
Panicked == {w \in Workers : worker[w].pc = "panicked"}

\* main has left the drain loop, rendered and returned, every worker thread
\* having ended and the report channel being closed and empty
DrainEnded ==
  /\ mainPc = "exit" /\ outcome = "ok" /\ printed
  /\ WorkersEnded
  /\ report_channel_ended

\* the ids left in the oid channel when every worker thread has ended are not
\* processed: none of them has a report, queued or added
LeftBehind ==
  (WorkersEnded /\ ~oid_send /\ mainPc \in {"drain", "print", "exit"}) =>
     \A i \in DOMAIN oidQ :
        /\ \A j \in DOMAIN addLog : addLog[j].oid # oidQ[i]
        /\ \A j \in DOMAIN reportQ : reportQ[j].oid # oidQ[i]

\* C19: a failed worker never hangs the consumer: the threads being scheduled
\* fairly, whichever workers fail, the report channel closes, the drain loop ends
\* and main renders and returns; the ids that no worker dequeued are never
\* processed.
C19_NoHang == (Enumerated ~> DrainEnded) /\ []LeftBehind

\* the only worker failed on the first id, the second was never dequeued, and
\* main rendered and returned
C19_Witness ==
  /\ DrainEnded
  /\ spawned = 1 /\ Panicked = {1}
  /\ oidQ = <<2>> /\ store[2].found
  /\ addLog = <<>>

\* C20: after any sequence of add_report calls on a new aggregator, every
\* context key has a report in its Feature or in its Fix bucket, every report in
\* a bucket has the context and the commit_type of the bucket, and the buckets
\* hold as many reports as there were calls.
C20_Buckets ==
  mainPc = "harness" =>
    /\ \A k \in DOMAIN aggregator.reports :
         /\ Len(aggregator.reports[k]) = 2
         /\ aggregator.reports[k][FEAT_TYPE + 1] # <<>> \/ aggregator.reports[k][FIX_TYPE + 1] # <<>>
         /\ \A t \in {FEAT_TYPE, FIX_TYPE} : \A i \in DOMAIN aggregator.reports[k][t + 1] :
              /\ aggregator.reports[k][t + 1][i].context = k
              /\ aggregator.reports[k][t + 1][i].commit_type = t
    /\ bucket_total(aggregator.reports, DOMAIN aggregator.reports) = Len(addLog)
    /\ DOMAIN aggregator.reports = {addLog[i].report.context : i \in DOMAIN addLog}

C20_Witness ==
  /\ mainPc = "harness"
  /\ Len(addLog) = 4
  /\ Cardinality(DOMAIN aggregator.reports) = 2
  /\ \E k \in DOMAIN aggregator.reports :
       Len(aggregator.reports[k][FEAT_TYPE + 1]) = 2 /\ aggregator.reports[k][FIX_TYPE + 1] = <<>>
  /\ addLog[1].report = addLog[4].report

\* the text after the first occurrence of c in s; empty when c does not occur
After(s, c) ==
  IF HasChar(s, c) THEN SubSeq(s, Len(Before(s, c)) + 2, Len(s)) ELSE <<>>

\* s without its last character when that character is c
StripTrailing(s, c) ==
  IF s # <<>> /\ s[Len(s)] = c THEN SubSeq(s, 1, Len(s) - 1) ELSE s

\* the type-and-context token: the part of the headline segment before its first ":"
TypeAndContext(s) == Before(HeadlineSegment(s), ":")

\* C15 (as claimed): the context of every returned Report is the piece of the
\* type-and-context token after its first "(", with a trailing ")" stripped if
\* present and nothing else removed, and is empty when the token has no "(".
C15_Context ==
  (ppc = "parsed" /\ parsed # <<>>)
    => parsed[1].context = StripTrailing(After(TypeAndContext(raw), "("), ")")

\* the body segments the loop of parse_report handles: trimmed and not empty
BodySegments(s) ==
  LET ps      == Tail(splitter_split(s, 1))
      trimmed == [i \in DOMAIN ps |-> trim(ps[i])]
  IN  SelectSeq(trimmed, LAMBDA p : p # <<>>)

LABEL_solves == StripTrailing(STR_solves, NL)
LABEL_related == StripTrailing(STR_related, NL)
LABEL_breaking_us == StripTrailing(STR_breaking_us, NL)
LABEL_breaking_sp == StripTrailing(STR_breaking_sp, NL)

\* the list a segment is labelled for, by its first line in any letter case
LabelOf(seg) ==
  LET l == to_lowercase(Before(seg, NL))
  IN  IF l = LABEL_solves THEN "solved_issues"
      ELSE IF l = LABEL_related THEN "related_issues"
      ELSE IF l = LABEL_breaking_us \/ l = LABEL_breaking_sp THEN "breaking_changes"
      ELSE "none"

ListOf(report, label) ==
  IF label = "solved_issues" THEN report.solved_issues
  ELSE IF label = "related_issues" THEN report.related_issues
  ELSE report.breaking_changes

\* the lines of a segment after its first
BulletLines(seg) == Tail(Lines(seg))

\* the items x1..xn of the bullet lines "- x1" .. "- xn"
BulletItems(seg) ==
  [i \in DOMAIN BulletLines(seg) |->
     LET l == trim(BulletLines(seg)[i]) IN trim(SubSeq(l, 3, Len(l)))]

\* a label line followed by one or more bullet lines, and the last segment of its label
IsBulletSection(segs, i) ==
  /\ LabelOf(segs[i]) # "none"
  /\ BulletLines(segs[i]) # <<>>
  /\ \A n \in DOMAIN BulletLines(segs[i]) : starts_with(trim(BulletLines(segs[i])[n]), <<"-", SP>>)
  /\ \A j \in DOMAIN segs : j > i => LabelOf(segs[j]) # LabelOf(segs[i])

\* C16 (as claimed): a body segment whose first line is Solves:, Related:,
\* Breaking Changes: or Breaking_Changes: in any letter case, followed by the
\* bullet lines "- x1" .. "- xn", sets the list of its label to <<x1, .., xn>>:
\* one entry per bullet, in source order, the label line left out.
C16_OnePerBullet ==
  (ppc = "parsed" /\ parsed # <<>>) =>
    \A i \in DOMAIN BodySegments(raw) :
      IsBulletSection(BodySegments(raw), i) =>
        ListOf(parsed[1], LabelOf(BodySegments(raw)[i])) = BulletItems(BodySegments(raw)[i])

\* the body segments whose first line is none of the labels
Unlabeled(segs) == {i \in DOMAIN segs : LabelOf(segs[i]) = "none"}

\* C17 (as claimed): the description of a returned Report is present only if
\* some non-empty body segment is not a labelled section, and is then the last
\* such segment, trimmed; a segment whose first line is one of the labels never
\* becomes the description.
C17_Description ==
  (ppc = "parsed" /\ parsed # <<>>) =>
    LET segs == BodySegments(raw)
        unl  == Unlabeled(segs)
    IN  parsed[1].description =
          IF unl = {} THEN <<>>
          ELSE <<segs[CHOOSE i \in unl : \A j \in unl : j <= i]>>

====
